---- MODULE Spec2Model ----
(***************************************************************************)
(* Appointment booking API (latihan-api-pasien): the record store          *)
(* (patients, doctors, appointments, doctor_schedules, doctor_time_off)    *)
(* and the HTTP handlers of internal/handlers/handlers.go that write it.   *)
(*                                                                         *)
(* Time.  A timestamp is a wall-clock instant counted in ticks from        *)
(* midnight of day 0; a day has SecsPerDay seconds of TicksPerSec ticks,   *)
(* so that a timestamp can carry a fraction of a second, which the         *)
(* layout "15:04:05" drops.  All timestamps are in one zone.               *)
(*                                                                         *)
(* Store driver.  A query returns what its SQL text selects from the       *)
(* tables as they are at that step; a TIME column scanned into a string    *)
(* is its text HH:MM:SS[.f], scanned into a time.Time it is that time of   *)
(* day.  Every query may also fail (the `fail` input of a handler names    *)
(* the query that fails, "none" for none).                                 *)
(*                                                                         *)
(* A time of day of a schedule request is read by time.Parse to a finer    *)
(* resolution (ParseUnits per tick) than the TIME column keeps.            *)
(*                                                                         *)
(* Spec handles every request alone, with every store query succeeding;    *)
(* SpecFail adds the failing queries; SpecRace runs the book and           *)
(* reschedule handlers of several requests at once, one store query of     *)
(* one request at a time; SpecFrac has the requests of one day and         *)
(* windows whose bounds carry a fraction of a second; SpecMove is          *)
(* SpecFrac with the history of the latest move of an appointment.         *)
(***************************************************************************)
EXTENDS Integers, Sequences, FiniteSets, TLC

\* ---- bounds of the model -------------------------------------------------
MaxDoctors == 1
MaxPatients == 1
MaxAppts == 2
NumDays == 2
SecsPerDay == 4
TicksPerSec == 2
\* weekday (time.Weekday numbering, Sunday = 0) of day 0
FirstWeekday == 0
\* requests handled at once in SpecRace
MaxWorkers == 2
\* units of the resolution of time.Parse (nanoseconds) in one tick, the
\* resolution of a TIME column (microseconds)
ParseUnits == 3

TicksPerDay == SecsPerDay * TicksPerSec
Timestamps == 0 .. (NumDays * TicksPerDay - 1)
Dates == 0 .. (NumDays - 1)
DoctorIds == 1 .. MaxDoctors
PatientIds == 1 .. MaxPatients
ApptIds == 1 .. MaxAppts
\* dayOfWeek values of a schedule request: out of range, Monday, Sunday, out of range
DayInputs == {0, 1, 7, 8}
\* startTime / endTime values of a schedule request, in parse units since
\* midnight: 00:00:01 and 00:00:02
TimeInputs == {1 * TicksPerSec * ParseUnits, 2 * TicksPerSec * ParseUnits}
\* which store query of a handler fails
Failures == {"none", "lookup", "timeoff", "schedule", "conflict", "write"}

\* ---- responses -----------------------------------------------------------
DOCTOR_UNAVAILABLE_TIMEOFF == "DOCTOR_UNAVAILABLE_TIMEOFF"
OUTSIDE_WORKING_HOURS == "OUTSIDE_WORKING_HOURS"
SLOT_ALREADY_BOOKED == "SLOT_ALREADY_BOOKED"
Rejections == {DOCTOR_UNAVAILABLE_TIMEOFF, OUTSIDE_WORKING_HOURS, SLOT_ALREADY_BOOKED}

Resp(status, reason) == [status |-> status, reason |-> reason]

Workers == 1 .. MaxWorkers
Idle == [pc |-> "idle"]
NoRow == [id |-> 0]
\* values of the history of moves: not kept, and kept with no move so far
NotRecording == [id |-> -1]
NoMove == [id |-> 0]

VARIABLES
    doctors,        \* ids of the rows of table doctors
    patients,       \* ids of the rows of table patients
    appointments,   \* rows of table appointments
    schedules,      \* rows of table doctor_schedules
    timeOff,        \* rows of table doctor_time_off
    request,        \* the request handled last, with the store query that failed
    response,       \* the response written for it
    replaced,       \* history: the row the last request's UPDATE has replaced
    inflight,       \* per worker, the request it is handling and where it stands
    moved           \* history, kept by the behaviours that start with NoMove:
                    \* the latest move of an appointment to another timestamp

store == <<doctors, patients, appointments, schedules, timeOff>>
vars == <<doctors, patients, appointments, schedules, timeOff, request, response, replaced,
          inflight, moved>>

\* ---- time conversions ----------------------------------------------------
\* t.Format("2006-01-02"): the calendar date
FormatDate(ts) == ts \div TicksPerDay

\* int(t.Weekday()): Sunday = 0 ... Saturday = 6
Weekday(ts) == (FirstWeekday + FormatDate(ts)) % 7

\* dayOfWeek of the handlers: Sunday converted from 0 to 7
DayOfWeek(ts) == IF Weekday(ts) = 0 THEN 7 ELSE Weekday(ts)

\* t.Format("15:04:05"): the fields of HH:MM:SS as one number of whole
\* seconds; the fraction of a second is dropped
FormatTime(ts) == <<(ts % TicksPerDay) \div TicksPerSec>>

\* text of a TIME value: HH:MM:SS, followed by the fraction when there is one
TimeText(t) ==
    IF t % TicksPerSec = 0 THEN <<t \div TicksPerSec>>
    ELSE <<t \div TicksPerSec, t % TicksPerSec>>

\* Go's < on strings (lexicographic), on texts given as their fields
RECURSIVE StrLess(_, _)
StrLess(a, b) ==
    IF b = <<>> THEN FALSE
    ELSE IF a = <<>> THEN TRUE
    ELSE IF Head(a) # Head(b) THEN Head(a) < Head(b)
    ELSE StrLess(Tail(a), Tail(b))

\* a time of day of a request text, given in parse units, as the TIME column
\* holds it: rounded to the resolution of the column
StoreTime(u) == (2 * u + ParseUnits) \div (2 * ParseUnits)

\* ---- store queries -------------------------------------------------------
\* SELECT COUNT(*) FROM doctor_time_off WHERE doctor_id = $1 AND off_date = $2
TimeOffCount(doctorID, ts) ==
    Cardinality({t \in timeOff : t.doctor_id = doctorID /\ t.off_date = FormatDate(ts)})

\* SELECT start_time, end_time FROM doctor_schedules
\*  WHERE doctor_id = $1 AND day_of_week = $2
ScheduleRows(doctorID, dayOfWeek) ==
    {s \in schedules : s.doctor_id = doctorID /\ s.day_of_week = dayOfWeek}

\* SELECT COUNT(*) FROM appointments WHERE doctor_id = $1 AND appointment_date = $2
ConflictCount(doctorID, ts) ==
    Cardinality({a \in appointments : a.doctor_id = doctorID /\ a.appointment_date = ts})

\* ... AND id != $3
ConflictCountExcept(doctorID, ts, appointmentID) ==
    Cardinality({a \in appointments :
        a.doctor_id = doctorID /\ a.appointment_date = ts /\ a.id # appointmentID})

\* (mutant: the WHERE clause left out)
AppointmentRows_NoWhere(appointmentID) == appointments

\* SELECT doctor_id FROM appointments WHERE id = $1
AppointmentRows(appointmentID) == {a \in appointments : a.id = appointmentID}

\* ---- the three checks of the handlers -------------------------------------
\* (mutant: a failed query is taken as "no time-off")
TimeOffCheck_FailOpen(doctorID, ts, err) ==
    ~err /\ TimeOffCount(doctorID, ts) > 0

\* check #1 of both handlers: err != nil || count > 0
TimeOffCheck(doctorID, ts, err) ==
    err \/ TimeOffCount(doctorID, ts) > 0

\* check #2 of CreateAppointmentHandler: startTime, endTime scanned into strings
\*   err != nil || requestTime < startTime || requestTime > endTime
WorkingHoursCheckCreate(doctorID, ts, err) ==
    LET rows == ScheduleRows(doctorID, DayOfWeek(ts))
        requestTime == FormatTime(ts)
    IN  \/ err
        \/ rows = {}
        \/ \E s \in rows :
              \/ StrLess(requestTime, TimeText(s.start_time))
              \/ StrLess(TimeText(s.end_time), requestTime)

\* check #2 of RescheduleAppointmentHandler: startTime, endTime scanned into
\* time.Time and formatted with "15:04:05"
WorkingHoursCheckReschedule(doctorID, ts, err) ==
    LET rows == ScheduleRows(doctorID, DayOfWeek(ts))
        requestTime == FormatTime(ts)
    IN  \/ err
        \/ rows = {}
        \/ \E s \in rows :
              \/ StrLess(requestTime, FormatTime(s.start_time))
              \/ StrLess(FormatTime(s.end_time), requestTime)

\* (mutant: the count is not looked at)
ConflictCheckCreate_ErrOnly(doctorID, ts, err) == err

\* check #3 of CreateAppointmentHandler
ConflictCheckCreate(doctorID, ts, err) ==
    err \/ ConflictCount(doctorID, ts) > 0

\* (mutant: the count is not looked at)
ConflictCheckReschedule_ErrOnly(doctorID, ts, appointmentID, err) == err

\* (mutant: the appointment itself is counted, "AND id != $3" left out)
ConflictCheckReschedule_SelfCounted(doctorID, ts, appointmentID, err) ==
    err \/ ConflictCount(doctorID, ts) > 0

\* check #3 of RescheduleAppointmentHandler
ConflictCheckReschedule(doctorID, ts, appointmentID, err) ==
    err \/ ConflictCountExcept(doctorID, ts, appointmentID) > 0

\* id of the next row of appointments (SERIAL)
NextAppointmentId == Cardinality(appointments) + 1

\* INSERT INTO appointments (patient_id, doctor_id, appointment_date):
\* status takes the column default
InsertAppointment(patientID, doctorID, ts) ==
    appointments \cup {[id |-> NextAppointmentId, patient_id |-> patientID,
                        doctor_id |-> doctorID, appointment_date |-> ts,
                        status |-> "CONFIRMED"]}

\* (mutant: the timestamp is not set)
UpdateAppointment_StatusOnly(appointmentID, ts) ==
    {IF a.id = appointmentID THEN [a EXCEPT !.status = "RESCHEDULED"] ELSE a :
        a \in appointments}

\* (mutant: the WHERE clause left out, every row is updated)
UpdateAppointment_NoWhere(appointmentID, ts) ==
    {[a EXCEPT !.appointment_date = ts, !.status = "RESCHEDULED"] : a \in appointments}

\* (mutant: the status is set back to the one of a new appointment)
UpdateAppointment_Confirmed(appointmentID, ts) ==
    {IF a.id = appointmentID
        THEN [a EXCEPT !.appointment_date = ts, !.status = "CONFIRMED"]
        ELSE a : a \in appointments}

\* UPDATE appointments SET appointment_date = $1, status = 'RESCHEDULED' WHERE id = $2
UpdateAppointment(appointmentID, ts) ==
    {IF a.id = appointmentID
        THEN [a EXCEPT !.appointment_date = ts, !.status = "RESCHEDULED"]
        ELSE a : a \in appointments}

\* the row the UPDATE finds (history)
UpdatedRow(appointmentID) ==
    IF AppointmentRows(appointmentID) = {} THEN NoRow
    ELSE CHOOSE a \in AppointmentRows(appointmentID) : TRUE

\* history of moves after the UPDATE of appointmentID to ts
Moved(appointmentID, ts) ==
    IF moved = NotRecording \/ UpdatedRow(appointmentID).appointment_date = ts
    THEN moved
    ELSE [id |-> appointmentID, doctor_id |-> UpdatedRow(appointmentID).doctor_id,
          from |-> UpdatedRow(appointmentID).appointment_date, to |-> ts]

\* ---- the validation of the handlers ----------------------------------------
\* (mutant: the working-hours check comes first)
ValidateCreate_HoursFirst(doctorID, ts, fail) ==
    IF WorkingHoursCheckCreate(doctorID, ts, fail = "schedule") THEN OUTSIDE_WORKING_HOURS
    ELSE IF TimeOffCheck(doctorID, ts, fail = "timeoff") THEN DOCTOR_UNAVAILABLE_TIMEOFF
    ELSE IF ConflictCheckCreate(doctorID, ts, fail = "conflict") THEN SLOT_ALREADY_BOOKED
    ELSE "accept"

\* the checks of CreateAppointmentHandler in their order, each ending the
\* handler with its reason when it fails; "accept" when none fails
ValidateCreate(doctorID, ts, fail) ==
    IF TimeOffCheck(doctorID, ts, fail = "timeoff") THEN DOCTOR_UNAVAILABLE_TIMEOFF
    ELSE IF WorkingHoursCheckCreate(doctorID, ts, fail = "schedule") THEN OUTSIDE_WORKING_HOURS
    ELSE IF ConflictCheckCreate(doctorID, ts, fail = "conflict") THEN SLOT_ALREADY_BOOKED
    ELSE "accept"

\* the checks of RescheduleAppointmentHandler in their order
ValidateReschedule(doctorID, ts, appointmentID, fail) ==
    IF TimeOffCheck(doctorID, ts, fail = "timeoff") THEN DOCTOR_UNAVAILABLE_TIMEOFF
    ELSE IF WorkingHoursCheckReschedule(doctorID, ts, fail = "schedule")
    THEN OUTSIDE_WORKING_HOURS
    ELSE IF ConflictCheckReschedule(doctorID, ts, appointmentID, fail = "conflict")
    THEN SLOT_ALREADY_BOOKED
    ELSE "accept"

\* ---- handlers, each handled alone -------------------------------------------
\* POST /appointments
CreateAppointmentHandler(patientID, doctorID, ts, fail) ==
    /\ request' = [op |-> "book", patient |-> patientID, doctor |-> doctorID, ts |-> ts,
                   fail |-> fail]
    /\ replaced' = NoRow
    /\ UNCHANGED <<inflight, moved>>
    /\ IF ValidateCreate(doctorID, ts, fail) # "accept"
       THEN \* http.Error(w, ..., http.StatusConflict); return
            /\ response' = Resp("Conflict", ValidateCreate(doctorID, ts, fail))
            /\ UNCHANGED store
       ELSE IF patientID \notin patients \/ doctorID \notin doctors
       THEN \* foreign key violation, code 23503
            /\ response' = Resp("NotFound", "PATIENT_OR_DOCTOR_NOT_FOUND")
            /\ UNCHANGED store
       ELSE IF fail = "write"
       THEN /\ response' = Resp("InternalServerError", "STORE_FAILURE")
            /\ UNCHANGED store
       ELSE /\ Cardinality(appointments) < MaxAppts
            /\ appointments' = InsertAppointment(patientID, doctorID, ts)
            /\ response' = Resp("Created", "CONFIRMED")
            /\ UNCHANGED <<doctors, patients, schedules, timeOff>>

\* (mutant: the UPDATE runs before the conflict check)
RescheduleAppointmentHandler_UpdateFirst(appointmentID, ts, fail) ==
    /\ request' = [op |-> "reschedule", appt |-> appointmentID, ts |-> ts, fail |-> fail]
    /\ replaced' = NoRow
    /\ UNCHANGED <<inflight, moved>>
    /\ IF fail = "lookup"
       THEN /\ response' = Resp("InternalServerError", "STORE_FAILURE")
            /\ UNCHANGED store
       ELSE IF AppointmentRows(appointmentID) = {}
       THEN /\ response' = Resp("NotFound", "APPOINTMENT_NOT_FOUND")
            /\ UNCHANGED store
       ELSE LET doctorID == (CHOOSE a \in AppointmentRows(appointmentID) : TRUE).doctor_id
                reason == ValidateReschedule(doctorID, ts, appointmentID, fail)
            IN
            IF reason \in {DOCTOR_UNAVAILABLE_TIMEOFF, OUTSIDE_WORKING_HOURS}
            THEN /\ response' = Resp("Conflict", reason)
                 /\ UNCHANGED store
            ELSE /\ appointments' = UpdateAppointment(appointmentID, ts)
                 /\ response' = IF reason = "accept" THEN Resp("OK", "RESCHEDULED")
                                 ELSE Resp("Conflict", reason)
                 /\ UNCHANGED <<doctors, patients, schedules, timeOff>>

\* PATCH /appointments/{id}
RescheduleAppointmentHandler(appointmentID, ts, fail) ==
    /\ request' = [op |-> "reschedule", appt |-> appointmentID, ts |-> ts, fail |-> fail]
    /\ UNCHANGED inflight
    /\ IF fail = "lookup"
       THEN /\ response' = Resp("InternalServerError", "STORE_FAILURE")
            /\ replaced' = NoRow
            /\ UNCHANGED moved
            /\ UNCHANGED store
       ELSE IF AppointmentRows(appointmentID) = {}
       THEN \* "no rows in result set"
            /\ response' = Resp("NotFound", "APPOINTMENT_NOT_FOUND")
            /\ replaced' = NoRow
            /\ UNCHANGED moved
            /\ UNCHANGED store
       ELSE LET doctorID == (CHOOSE a \in AppointmentRows(appointmentID) : TRUE).doctor_id
            IN
            IF ValidateReschedule(doctorID, ts, appointmentID, fail) # "accept"
            THEN \* http.Error(w, ..., http.StatusConflict); return
                 /\ response' = Resp("Conflict",
                                     ValidateReschedule(doctorID, ts, appointmentID, fail))
                 /\ replaced' = NoRow
                 /\ UNCHANGED moved
                 /\ UNCHANGED store
            ELSE IF fail = "write"
            THEN /\ response' = Resp("InternalServerError", "STORE_FAILURE")
                 /\ replaced' = NoRow
                 /\ UNCHANGED moved
                 /\ UNCHANGED store
            ELSE /\ appointments' = UpdateAppointment(appointmentID, ts)
                 /\ response' = Resp("OK", "RESCHEDULED")
                 /\ replaced' = UpdatedRow(appointmentID)
                 /\ moved' = Moved(appointmentID, ts)
                 /\ UNCHANGED <<doctors, patients, schedules, timeOff>>

\* POST /doctors/{id}/schedules: startTime and endTime are compared as
\* time.Parse reads them, and stored as the INSERT of their texts keeps them
AddDoctorScheduleHandler(doctorID, dayOfWeek, startTime, endTime, fail) ==
    /\ request' = [op |-> "schedule", doctor |-> doctorID, day |-> dayOfWeek,
                   start |-> startTime, end |-> endTime, fail |-> fail]
    /\ replaced' = NoRow
    /\ UNCHANGED <<inflight, moved>>
    /\ IF dayOfWeek < 1 \/ dayOfWeek > 7
       THEN /\ response' = Resp("BadRequest", "DAY_OUT_OF_RANGE")
            /\ UNCHANGED store
       ELSE IF startTime >= endTime
       THEN /\ response' = Resp("BadRequest", "START_NOT_BEFORE_END")
            /\ UNCHANGED store
       ELSE IF fail = "write" \/ doctorID \notin doctors
       THEN \* a failed INSERT, the foreign key violation included
            /\ response' = Resp("InternalServerError", "STORE_FAILURE")
            /\ UNCHANGED store
       ELSE IF ScheduleRows(doctorID, dayOfWeek) # {}
       THEN \* unique violation, code 23505
            /\ response' = Resp("Conflict", "SCHEDULE_EXISTS")
            /\ UNCHANGED store
       ELSE /\ schedules' = schedules \cup
                  {[doctor_id |-> doctorID, day_of_week |-> dayOfWeek,
                    start_time |-> StoreTime(startTime),
                    end_time |-> StoreTime(endTime)]}
            /\ response' = Resp("Created", "SCHEDULE_ADDED")
            /\ UNCHANGED <<doctors, patients, appointments, timeOff>>

\* POST /doctors/{id}/timeoff
AddDoctorTimeOffHandler(doctorID, offDate, fail) ==
    /\ request' = [op |-> "timeoff", doctor |-> doctorID, date |-> offDate, fail |-> fail]
    /\ replaced' = NoRow
    /\ UNCHANGED <<inflight, moved>>
    /\ IF fail = "write" \/ doctorID \notin doctors
       THEN /\ response' = Resp("InternalServerError", "STORE_FAILURE")
            /\ UNCHANGED store
       ELSE IF \E t \in timeOff : t.doctor_id = doctorID /\ t.off_date = offDate
       THEN \* unique violation, code 23505
            /\ response' = Resp("Conflict", "TIMEOFF_EXISTS")
            /\ UNCHANGED store
       ELSE /\ timeOff' = timeOff \cup {[doctor_id |-> doctorID, off_date |-> offDate]}
            /\ response' = Resp("Created", "TIMEOFF_ADDED")
            /\ UNCHANGED <<doctors, patients, appointments, schedules>>

\* POST /doctors, with a body that passes the handler's validation
CreateDoctorHandler ==
    /\ Cardinality(doctors) < MaxDoctors
    /\ doctors' = doctors \cup {Cardinality(doctors) + 1}
    /\ request' = [op |-> "doctor"]
    /\ replaced' = NoRow
    /\ response' = Resp("Created", "DOCTOR_ADDED")
    /\ UNCHANGED <<patients, appointments, schedules, timeOff, inflight, moved>>

\* POST /patients, with a body that passes the handler's validation
CreatePatientHandler ==
    /\ Cardinality(patients) < MaxPatients
    /\ patients' = patients \cup {Cardinality(patients) + 1}
    /\ request' = [op |-> "patient"]
    /\ replaced' = NoRow
    /\ response' = Resp("Created", "PATIENT_ADDED")
    /\ UNCHANGED <<doctors, appointments, schedules, timeOff, inflight, moved>>

\* the empty database, no request handled yet
Init ==
    /\ doctors = {}
    /\ patients = {}
    /\ appointments = {}
    /\ schedules = {}
    /\ timeOff = {}
    /\ request = [op |-> "none"]
    /\ response = Resp("none", "none")
    /\ replaced = NoRow
    /\ inflight = [w \in Workers |-> Idle]
    /\ moved = NotRecording

\* every request handled alone, every store query succeeding
Next ==
    \/ CreateDoctorHandler
    \/ CreatePatientHandler
    \/ \E p \in PatientIds, d \in DoctorIds, ts \in Timestamps :
          CreateAppointmentHandler(p, d, ts, "none")
    \/ \E id \in ApptIds, ts \in Timestamps :
          RescheduleAppointmentHandler(id, ts, "none")
    \/ \E d \in DoctorIds, day \in DayInputs, st \in TimeInputs, en \in TimeInputs :
          AddDoctorScheduleHandler(d, day, st, en, "none")
    \/ \E d \in DoctorIds, date \in Dates :
          AddDoctorTimeOffHandler(d, date, "none")

Spec == Init /\ [][Next]_vars

\* timestamp of the requests with a failing query: 00:00:01 of day 1
FailTimestamps == {TicksPerDay + 1 * TicksPerSec}

\* every request handled alone, any one store query of it failing
NextFail ==
    \/ CreateDoctorHandler
    \/ CreatePatientHandler
    \/ \E p \in PatientIds, d \in DoctorIds, ts \in Timestamps :
          CreateAppointmentHandler(p, d, ts, "none")
    \/ \E p \in PatientIds, d \in DoctorIds, ts \in FailTimestamps,
          f \in Failures \ {"none", "lookup"} :
          CreateAppointmentHandler(p, d, ts, f)
    \/ \E id \in ApptIds, ts \in Timestamps :
          RescheduleAppointmentHandler(id, ts, "none")
    \/ \E id \in ApptIds, ts \in FailTimestamps, f \in Failures \ {"none"} :
          RescheduleAppointmentHandler(id, ts, f)
    \/ \E d \in DoctorIds, day \in DayInputs, st \in TimeInputs, en \in TimeInputs :
          AddDoctorScheduleHandler(d, day, st, en, "none")
    \/ \E d \in DoctorIds, date \in Dates, f \in {"none", "write"} :
          AddDoctorTimeOffHandler(d, date, f)

SpecFail == Init /\ [][NextFail]_vars

\* ---- windows registered with a fraction of a second ------------------------
\* time.Parse("15:04:05", ...) accepts a fractional second after the seconds
\* field, and the text of the request is what the INSERT stores: start and
\* end times, in parse units, of 00:00:01, 00:00:01.5 and 00:00:02, and of
\* 00:00:02 and one parse unit, less than the resolution of the column
FracTimeInputs ==
    {1 * TicksPerSec * ParseUnits, (1 * TicksPerSec + 1) * ParseUnits,
     2 * TicksPerSec * ParseUnits, 2 * TicksPerSec * ParseUnits + 1}

\* the requests of day 1 (a Monday); the day of week of that date, and two
\* values out of range
FracTimestamps == {ts \in Timestamps : FormatDate(ts) = 1}
FracDayInputs == {DayOfWeek(ts) : ts \in FracTimestamps} \cup {0, 8}

\* every request handled alone, every store query succeeding, the requests
\* on one day and the windows of that weekday with fractions of a second
NextFrac ==
    \/ CreateDoctorHandler
    \/ CreatePatientHandler
    \/ \E p \in PatientIds, d \in DoctorIds, ts \in FracTimestamps :
          CreateAppointmentHandler(p, d, ts, "none")
    \/ \E id \in ApptIds, ts \in FracTimestamps :
          RescheduleAppointmentHandler(id, ts, "none")
    \/ \E d \in DoctorIds, day \in FracDayInputs, st \in FracTimeInputs,
          en \in FracTimeInputs :
          AddDoctorScheduleHandler(d, day, st, en, "none")
    \/ \E d \in DoctorIds, ts \in FracTimestamps :
          AddDoctorTimeOffHandler(d, FormatDate(ts), "none")

SpecFrac == Init /\ [][NextFrac]_vars

\* the same requests from the empty database, the history of moves kept
InitMove ==
    /\ doctors = {}
    /\ patients = {}
    /\ appointments = {}
    /\ schedules = {}
    /\ timeOff = {}
    /\ request = [op |-> "none"]
    /\ response = Resp("none", "none")
    /\ replaced = NoRow
    /\ inflight = [w \in Workers |-> Idle]
    /\ moved = NoMove

SpecMove == InitMove /\ [][NextFrac]_vars

\* ---- handlers of requests handled at once ---------------------------------
\* timestamps of the requests of SpecRace: 00:00:01 and 00:00:02 of day 1
RaceTimestamps == {TicksPerDay + 1 * TicksPerSec, TicksPerDay + 2 * TicksPerSec}

\* worker w writes its response and is idle again
Finish(w, req, resp) ==
    /\ inflight' = [inflight EXCEPT ![w] = Idle]
    /\ request' = req
    /\ response' = resp
    /\ replaced' = IF resp.status = "OK" THEN UpdatedRow(req.appt) ELSE NoRow
    /\ UNCHANGED moved

\* worker w goes on to its next store query
Goto(w, pc) ==
    /\ inflight' = [inflight EXCEPT ![w].pc = pc]
    /\ UNCHANGED <<request, response, replaced, moved>>

\* POST /appointments arrives at an idle worker: the body is decoded
ReceiveCreateAppointment(w, patientID, doctorID, ts) ==
    /\ inflight[w].pc = "idle"
    /\ inflight' = [inflight EXCEPT ![w] =
          [pc |-> "timeoff", op |-> "book", patient |-> patientID,
           doctor |-> doctorID, ts |-> ts]]
    /\ UNCHANGED <<store, request, response, replaced, moved>>

\* the next store query of CreateAppointmentHandler for worker w
CreateAppointmentStep(w) ==
    LET r == inflight[w]
        req == [op |-> "book", patient |-> r.patient, doctor |-> r.doctor, ts |-> r.ts,
                fail |-> "none"]
    IN
    /\ r.pc # "idle"
    /\ r.op = "book"
    /\ IF r.pc = "timeoff"
       THEN /\ IF TimeOffCheck(r.doctor, r.ts, FALSE)
               THEN Finish(w, req, Resp("Conflict", DOCTOR_UNAVAILABLE_TIMEOFF))
               ELSE Goto(w, "schedule")
            /\ UNCHANGED store
       ELSE IF r.pc = "schedule"
       THEN /\ IF WorkingHoursCheckCreate(r.doctor, r.ts, FALSE)
               THEN Finish(w, req, Resp("Conflict", OUTSIDE_WORKING_HOURS))
               ELSE Goto(w, "conflict")
            /\ UNCHANGED store
       ELSE IF r.pc = "conflict"
       THEN /\ IF ConflictCheckCreate(r.doctor, r.ts, FALSE)
               THEN Finish(w, req, Resp("Conflict", SLOT_ALREADY_BOOKED))
               ELSE Goto(w, "write")
            /\ UNCHANGED store
       ELSE \* r.pc = "write": the INSERT
            IF r.patient \notin patients \/ r.doctor \notin doctors
            THEN /\ Finish(w, req, Resp("NotFound", "PATIENT_OR_DOCTOR_NOT_FOUND"))
                 /\ UNCHANGED store
            ELSE /\ Cardinality(appointments) < MaxAppts
                 /\ appointments' = InsertAppointment(r.patient, r.doctor, r.ts)
                 /\ Finish(w, req, Resp("Created", "CONFIRMED"))
                 /\ UNCHANGED <<doctors, patients, schedules, timeOff>>

\* PATCH /appointments/{id} arrives at an idle worker: the body is decoded
ReceiveRescheduleAppointment(w, appointmentID, ts) ==
    /\ inflight[w].pc = "idle"
    /\ inflight' = [inflight EXCEPT ![w] =
          [pc |-> "lookup", op |-> "reschedule", appt |-> appointmentID,
           doctor |-> 0, ts |-> ts]]
    /\ UNCHANGED <<store, request, response, replaced, moved>>

\* the next store query of RescheduleAppointmentHandler for worker w
RescheduleAppointmentStep(w) ==
    LET r == inflight[w]
        req == [op |-> "reschedule", appt |-> r.appt, ts |-> r.ts, fail |-> "none"]
    IN
    /\ r.pc # "idle"
    /\ r.op = "reschedule"
    /\ IF r.pc = "lookup"
       THEN /\ IF AppointmentRows(r.appt) = {}
               THEN Finish(w, req, Resp("NotFound", "APPOINTMENT_NOT_FOUND"))
               ELSE /\ inflight' = [inflight EXCEPT
                         ![w].pc = "timeoff",
                         ![w].doctor = (CHOOSE a \in AppointmentRows(r.appt) : TRUE).doctor_id]
                    /\ UNCHANGED <<request, response, replaced, moved>>
            /\ UNCHANGED store
       ELSE IF r.pc = "timeoff"
       THEN /\ IF TimeOffCheck(r.doctor, r.ts, FALSE)
               THEN Finish(w, req, Resp("Conflict", DOCTOR_UNAVAILABLE_TIMEOFF))
               ELSE Goto(w, "schedule")
            /\ UNCHANGED store
       ELSE IF r.pc = "schedule"
       THEN /\ IF WorkingHoursCheckReschedule(r.doctor, r.ts, FALSE)
               THEN Finish(w, req, Resp("Conflict", OUTSIDE_WORKING_HOURS))
               ELSE Goto(w, "conflict")
            /\ UNCHANGED store
       ELSE IF r.pc = "conflict"
       THEN /\ IF ConflictCheckReschedule(r.doctor, r.ts, r.appt, FALSE)
               THEN Finish(w, req, Resp("Conflict", SLOT_ALREADY_BOOKED))
               ELSE Goto(w, "write")
            /\ UNCHANGED store
       ELSE \* r.pc = "write": the UPDATE; no row is ever deleted, so it finds its row
            /\ appointments' = UpdateAppointment(r.appt, r.ts)
            /\ Finish(w, req, Resp("OK", "RESCHEDULED"))
            /\ UNCHANGED <<doctors, patients, schedules, timeOff>>

\* a database with one doctor, who works from 00:00:01 to 00:00:02 on Mondays
\* and Sundays, and one patient; no request in flight
InitRace ==
    /\ doctors = {1}
    /\ patients = {1}
    /\ appointments = {}
    /\ schedules = {[doctor_id |-> 1, day_of_week |-> day,
                     start_time |-> 1 * TicksPerSec, end_time |-> 2 * TicksPerSec] :
                        day \in {1, 7}}
    /\ timeOff = {}
    /\ request = [op |-> "none"]
    /\ response = Resp("none", "none")
    /\ replaced = NoRow
    /\ inflight = [w \in Workers |-> Idle]
    /\ moved = NotRecording

NextRace ==
    \/ \E w \in Workers, ts \in RaceTimestamps : ReceiveCreateAppointment(w, 1, 1, ts)
    \/ \E w \in Workers : CreateAppointmentStep(w)
    \/ \E w \in Workers, id \in ApptIds, ts \in RaceTimestamps :
          ReceiveRescheduleAppointment(w, id, ts)
    \/ \E w \in Workers : RescheduleAppointmentStep(w)

SpecRace == InitRace /\ [][NextRace]_vars

\* ===========================================================================
\* The facts of the store and of a step, in the words of the claims.  In a
\* step, request' is the request the step handles and response' its response.
\* ===========================================================================
\* the calendar date and the time of day (in ticks) of a timestamp
DateOf(ts) == ts \div TicksPerDay
TimeOfDay(ts) == ts % TicksPerDay
\* the time of day a clock showing HH:MM:SS reads, in ticks
ClockTime(ts) == (TimeOfDay(ts) \div TicksPerSec) * TicksPerSec
\* the weekday of a timestamp, Monday = 1 ... Sunday = 7
IsoDay(ts) == ((FirstWeekday + DateOf(ts) + 6) % 7) + 1

\* the date of ts is a registered time-off of doctor d
IsTimeOff(d, ts) ==
    \E t \in timeOff : t.doctor_id = d /\ t.off_date = DateOf(ts)

\* a working window of d is registered for the weekday of ts and holds time of day t
WindowHolds(d, ts, t) ==
    \E s \in schedules :
        /\ s.doctor_id = d
        /\ s.day_of_week = IsoDay(ts)
        /\ s.start_time <= t
        /\ t <= s.end_time

\* an appointment of d is at ts; one other than appointment id is at ts
Occupied(d, ts) ==
    \E a \in appointments : a.doctor_id = d /\ a.appointment_date = ts
OccupiedByOther(d, ts, id) ==
    \E a \in appointments : a.doctor_id = d /\ a.appointment_date = ts /\ a.id # id

\* the appointment with this id (when there is one), and its doctor
Exists(id) == \E a \in appointments : a.id = id
Appt(id) == CHOOSE a \in appointments : a.id = id
DoctorOf(id) == Appt(id).doctor_id

\* the reason of the first failing check, "accept" when none fails
FirstFailing(check1, check2, check3) ==
    IF check1 THEN DOCTOR_UNAVAILABLE_TIMEOFF
    ELSE IF check2 THEN OUTSIDE_WORKING_HOURS
    ELSE IF check3 THEN SLOT_ALREADY_BOOKED
    ELSE "accept"

\* what the response says of the validation
Outcome(resp) == IF resp.reason \in Rejections THEN resp.reason ELSE "accept"

\* the step handles a book request / a reschedule request of an existing appointment
BookStep == request'.op = "book"
RescheduleStep == request'.op = "reschedule" /\ Exists(request'.appt)

\* ===========================================================================
\* C1 - book and reschedule evaluate the checks in the order time-off,
\* working hours, conflict, and report the reason of the first check that
\* fails: a request on a registered time-off date of the doctor is rejected
\* with DOCTOR_UNAVAILABLE_TIMEOFF whatever the window and the appointments,
\* and a request outside the working hours and on an occupied slot is rejected
\* with OUTSIDE_WORKING_HOURS.
\* ===========================================================================
C1_FirstFailingReasonReported ==
    [][ /\ BookStep =>
            LET d == request'.doctor
                ts == request'.ts
            IN  /\ IsTimeOff(d, ts) => response'.reason = DOCTOR_UNAVAILABLE_TIMEOFF
                /\ ( /\ ~IsTimeOff(d, ts)
                     /\ ~WindowHolds(d, ts, TimeOfDay(ts))
                     /\ Occupied(d, ts) )
                   => response'.reason = OUTSIDE_WORKING_HOURS
        /\ RescheduleStep =>
            LET id == request'.appt
                d == DoctorOf(id)
                ts == request'.ts
            IN  /\ IsTimeOff(d, ts) => response'.reason = DOCTOR_UNAVAILABLE_TIMEOFF
                /\ ( /\ ~IsTimeOff(d, ts)
                     /\ ~WindowHolds(d, ts, TimeOfDay(ts))
                     /\ OccupiedByOther(d, ts, id) )
                   => response'.reason = OUTSIDE_WORKING_HOURS
      ]_vars

\* what holds of C1 (SpecFail): the order of the checks, each failing on its
\* fact or on an error of its store query, with the working-hours check taken
\* on the clock reading HH:MM:SS of the request, the fraction of a second
\* dropped (C2 is about what that check decides)
C1_FirstFailingCheckWins ==
    [][ /\ BookStep =>
            LET d == request'.doctor
                ts == request'.ts
                f == request'.fail
            IN  /\ Outcome(response') =
                      FirstFailing(IsTimeOff(d, ts) \/ f = "timeoff",
                                   ~WindowHolds(d, ts, ClockTime(ts)) \/ f = "schedule",
                                   Occupied(d, ts) \/ f = "conflict")
                /\ IsTimeOff(d, ts) => response'.reason = DOCTOR_UNAVAILABLE_TIMEOFF
        /\ RescheduleStep /\ request'.fail # "lookup" =>
            LET id == request'.appt
                d == DoctorOf(id)
                ts == request'.ts
                f == request'.fail
            IN  /\ Outcome(response') =
                      FirstFailing(IsTimeOff(d, ts) \/ f = "timeoff",
                                   ~WindowHolds(d, ts, ClockTime(ts)) \/ f = "schedule",
                                   OccupiedByOther(d, ts, id) \/ f = "conflict")
                /\ IsTimeOff(d, ts) => response'.reason = DOCTOR_UNAVAILABLE_TIMEOFF
      ]_vars

\* a reschedule onto a time-off date, outside the window as well, was rejected
\* with DOCTOR_UNAVAILABLE_TIMEOFF
C1_Witness ==
    /\ request.op = "reschedule"
    /\ Exists(request.appt)
    /\ IsTimeOff(DoctorOf(request.appt), request.ts)
    /\ ~WindowHolds(DoctorOf(request.appt), request.ts, ClockTime(request.ts))
    /\ response.reason = DOCTOR_UNAVAILABLE_TIMEOFF

\* a book request whose working-hours check failed (on its store query) for an
\* occupied slot inside the window was rejected with OUTSIDE_WORKING_HOURS
C1_WitnessHoursBeforeConflict ==
    /\ request.op = "book"
    /\ ~IsTimeOff(request.doctor, request.ts)
    /\ Occupied(request.doctor, request.ts)
    /\ request.fail = "schedule"
    /\ response.reason = OUTSIDE_WORKING_HOURS

\* ===========================================================================
\* C2 - with no time-off on the date and no conflicting appointment, a request
\* for doctor d at time of day t on weekday w (Monday = 1 ... Sunday = 7) is
\* accepted if and only if a window (start, end) is registered for (d, w) and
\* start <= t <= end; otherwise it is rejected with OUTSIDE_WORKING_HOURS.
\* (Book requests are taken of a registered patient, so that accepted is
\* created.)
\* ===========================================================================
C2_WorkingHoursInclusive ==
    [][ /\ BookStep /\ request'.patient \in patients
                    /\ ~IsTimeOff(request'.doctor, request'.ts)
                    /\ ~Occupied(request'.doctor, request'.ts)
           => Outcome(response') =
                 IF WindowHolds(request'.doctor, request'.ts, TimeOfDay(request'.ts))
                 THEN "accept" ELSE OUTSIDE_WORKING_HOURS
        /\ RescheduleStep /\ ~IsTimeOff(DoctorOf(request'.appt), request'.ts)
                    /\ ~OccupiedByOther(DoctorOf(request'.appt), request'.ts, request'.appt)
           => Outcome(response') =
                 IF WindowHolds(DoctorOf(request'.appt), request'.ts, TimeOfDay(request'.ts))
                 THEN "accept" ELSE OUTSIDE_WORKING_HOURS
      ]_vars

\* what holds instead: the same with the time of day read as HH:MM:SS, the
\* fraction of a second of the request dropped
C2_OnClockReading ==
    [][ /\ BookStep /\ request'.patient \in patients
                    /\ ~IsTimeOff(request'.doctor, request'.ts)
                    /\ ~Occupied(request'.doctor, request'.ts)
           => Outcome(response') =
                 IF WindowHolds(request'.doctor, request'.ts, ClockTime(request'.ts))
                 THEN "accept" ELSE OUTSIDE_WORKING_HOURS
        /\ RescheduleStep /\ ~IsTimeOff(DoctorOf(request'.appt), request'.ts)
                    /\ ~OccupiedByOther(DoctorOf(request'.appt), request'.ts, request'.appt)
           => Outcome(response') =
                 IF WindowHolds(DoctorOf(request'.appt), request'.ts, ClockTime(request'.ts))
                 THEN "accept" ELSE OUTSIDE_WORKING_HOURS
      ]_vars

\* ===========================================================================
\* C3 - under any interleaving of book and reschedule requests, handled at
\* once with their validation reads and their write as separate store steps,
\* no two non-cancelled appointments of a doctor have the same timestamp.
\* ===========================================================================
C3_NoDoubleBooking ==
    \A a, b \in appointments :
        /\ a.id # b.id
        /\ a.doctor_id = b.doctor_id
        /\ a.status # "CANCELLED"
        /\ b.status # "CANCELLED"
        => a.appointment_date # b.appointment_date

\* ===========================================================================
\* C4 - once a book request for (doctor, timestamp) has completed
\* successfully, any later book request for the same (doctor, timestamp), by
\* any patient, is rejected with SLOT_ALREADY_BOOKED and adds no appointment.
\* An appointment in status CONFIRMED at (doctor, timestamp) is the trace of
\* the successful book: a row is inserted CONFIRMED and any reschedule, even
\* onto its own slot, leaves it RESCHEDULED.
\* ===========================================================================
Booked(d, ts) ==
    \E a \in appointments :
        a.doctor_id = d /\ a.appointment_date = ts /\ a.status = "CONFIRMED"

C4_SecondBookRejectedAsBooked ==
    [][ BookStep /\ Booked(request'.doctor, request'.ts)
        => /\ response'.reason = SLOT_ALREADY_BOOKED
           /\ appointments' = appointments ]_vars

\* C4 as amended: while the booked appointment holds the slot, a later book
\* request for it is rejected and adds no appointment; the reason is
\* SLOT_ALREADY_BOOKED unless the date has since been registered as a time-off
\* of the doctor, and DOCTOR_UNAVAILABLE_TIMEOFF then.
C4_SecondBookRejected ==
    [][ BookStep /\ Booked(request'.doctor, request'.ts)
        => /\ response'.reason =
                 IF IsTimeOff(request'.doctor, request'.ts)
                 THEN DOCTOR_UNAVAILABLE_TIMEOFF ELSE SLOT_ALREADY_BOOKED
           /\ appointments' = appointments ]_vars

\* a second book request for a booked slot was rejected with SLOT_ALREADY_BOOKED
C4_Witness ==
    /\ request.op = "book"
    /\ Booked(request.doctor, request.ts)
    /\ response.reason = SLOT_ALREADY_BOOKED
    /\ Cardinality(appointments) = 1

\* ===========================================================================
\* C5 - rescheduling an existing appointment A to its own current timestamp
\* succeeds: the conflict check excludes A itself.
\* ===========================================================================
OntoOwnSlot == RescheduleStep /\ Appt(request'.appt).appointment_date = request'.ts

C5_RescheduleOntoOwnSlotSucceeds ==
    [][ OntoOwnSlot => response'.status = "OK" ]_vars

\* C5 as amended: A's own slot is never a conflict; the request succeeds unless
\* the date has since been registered as a time-off of A's doctor (it is then
\* rejected with DOCTOR_UNAVAILABLE_TIMEOFF) or another appointment of the
\* doctor holds the same timestamp (SLOT_ALREADY_BOOKED).
C5_OwnSlotIsNoConflict ==
    [][ OntoOwnSlot =>
          LET id == request'.appt
              d == DoctorOf(id)
              ts == request'.ts
          IN  /\ Outcome(response') =
                    FirstFailing(IsTimeOff(d, ts), FALSE, OccupiedByOther(d, ts, id))
              /\ Outcome(response') = "accept" => response'.status = "OK" ]_vars

\* an appointment was rescheduled onto the timestamp it had
C5_Witness ==
    /\ request.op = "reschedule"
    /\ response.status = "OK"
    /\ replaced.id = request.appt
    /\ replaced.appointment_date = request.ts

\* ===========================================================================
\* C6 - a reschedule of appointment A that passes validation changes only A's
\* timestamp (to the requested one) and A's status (to RESCHEDULED): A's id,
\* patient and doctor, every other appointment, and every schedule and
\* time-off record are unchanged.
\* ===========================================================================
C6_RescheduleFrame ==
    [][ RescheduleStep /\ response'.status = "OK" =>
          LET A == Appt(request'.appt)
          IN  /\ appointments' =
                    (appointments \ {A}) \cup
                    {[id |-> A.id, patient_id |-> A.patient_id, doctor_id |-> A.doctor_id,
                      appointment_date |-> request'.ts, status |-> "RESCHEDULED"]}
              /\ UNCHANGED <<doctors, patients, schedules, timeOff>> ]_vars

\* one of two appointments was moved to another timestamp, the other one is
\* where it was booked
C6_Witness ==
    /\ request.op = "reschedule"
    /\ response.status = "OK"
    /\ replaced.id = request.appt
    /\ replaced.appointment_date # request.ts
    /\ \E b \in appointments : b.id # request.appt /\ b.status = "CONFIRMED"

\* ===========================================================================
\* C7 - a reschedule request for an appointment id that does not exist fails
\* with a not-found error, whatever the validation checks would say of its
\* timestamp, and leaves the store unchanged.
\* ===========================================================================
C7_UnknownAppointmentNotFound ==
    [][ request'.op = "reschedule" /\ ~Exists(request'.appt)
        => /\ response'.status = "NotFound"
           /\ UNCHANGED store ]_vars

\* a reschedule of an unknown id was answered not-found while another
\* appointment exists
C7_Witness ==
    /\ request.op = "reschedule"
    /\ ~Exists(request.appt)
    /\ appointments # {}
    /\ response.status = "NotFound"

\* ===========================================================================
\* C8 - a book request whose patient or whose doctor does not exist ends in a
\* not-found error, distinct from the three validation rejections, and
\* creates no appointment.
\* ===========================================================================
C8_UnknownPatientOrDoctorNotFound ==
    [][ BookStep /\ (request'.patient \notin patients \/ request'.doctor \notin doctors)
        => /\ response'.status = "NotFound"
           /\ appointments' = appointments ]_vars

\* ===========================================================================
\* C9 - every appointment is created by a successful book in status
\* CONFIRMED; a row changes only by a reschedule of it that passed validation,
\* and is RESCHEDULED then (from CONFIRMED or from RESCHEDULED); no appointment
\* returns to CONFIRMED, becomes CANCELLED or is deleted.
\* ===========================================================================
C9_Lifecycle ==
    [][ /\ \A a \in appointments :
              \E b \in appointments' :
                 /\ b.id = a.id
                 /\ b # a =>
                      /\ b.status = "RESCHEDULED"
                      /\ request'.op = "reschedule"
                      /\ request'.appt = a.id
                      /\ response'.status = "OK"
                      /\ ~IsTimeOff(a.doctor_id, request'.ts)
                      /\ WindowHolds(a.doctor_id, request'.ts, ClockTime(request'.ts))
                      /\ ~OccupiedByOther(a.doctor_id, request'.ts, a.id)
        /\ \A b \in appointments' :
              /\ b.status \in {"CONFIRMED", "RESCHEDULED"}
              /\ (\A a \in appointments : a.id # b.id) =>
                      /\ b.status = "CONFIRMED"
                      /\ request'.op = "book"
                      /\ response'.status = "Created"
      ]_vars

\* a rescheduled appointment was rescheduled again, next to a confirmed one
C9_Witness ==
    /\ request.op = "reschedule"
    /\ response.status = "OK"
    /\ replaced.id = request.appt
    /\ replaced.status = "RESCHEDULED"
    /\ \E b \in appointments : b.status = "CONFIRMED"

\* ===========================================================================
\* C10 - a book or reschedule request rejected by one of the three checks
\* leaves the whole store unchanged: no appointment is inserted and the
\* targeted appointment keeps its timestamp and status.
\* ===========================================================================
C10_RejectionWritesNothing ==
    [][ request'.op \in {"book", "reschedule"} /\ response'.reason \in Rejections
        => UNCHANGED store ]_vars

\* a reschedule was rejected with SLOT_ALREADY_BOOKED and the appointment is
\* where it was, in the status it had
C10_Witness ==
    /\ request.op = "reschedule"
    /\ Exists(request.appt)
    /\ response.reason = SLOT_ALREADY_BOOKED
    /\ Appt(request.appt).appointment_date # request.ts
    /\ Appt(request.appt).status = "CONFIRMED"

\* ===========================================================================
\* C11 - book and reschedule apply the same admission decision: for the same
\* store state, doctor and timestamp, the validation of a reschedule of
\* appointment A gives the outcome and the reason that the validation of a
\* book gives, except only that A's own slot is not counted as a conflict.
\* ===========================================================================
C11_SameAdmissionDecision ==
    [][ RescheduleStep =>
          LET id == request'.appt
              d == DoctorOf(id)
              ts == request'.ts
              book == ValidateCreate(d, ts, "none")
          IN  Outcome(response') =
                 IF book = SLOT_ALREADY_BOOKED /\ ~OccupiedByOther(d, ts, id)
                 THEN "accept" ELSE book ]_vars

\* ===========================================================================
\* C12 - fail-closed on store errors: in book and in reschedule, when the
\* store query of a validation check fails, the request is rejected with the
\* reason of that check (time-off query: DOCTOR_UNAVAILABLE_TIMEOFF, schedule
\* query: OUTSIDE_WORKING_HOURS, conflict query: SLOT_ALREADY_BOOKED) and
\* nothing is written; no request with a failing validation query is
\* accepted.  A query is run, and fails, when the checks before it passed.
\* ===========================================================================
FailClosed(d, ts, f) ==
    /\ response'.status \notin {"Created", "OK"}
    /\ response'.reason \in Rejections
    /\ UNCHANGED store
    /\ f = "timeoff" => response'.reason = DOCTOR_UNAVAILABLE_TIMEOFF
    /\ f = "schedule" /\ ~IsTimeOff(d, ts) => response'.reason = OUTSIDE_WORKING_HOURS
    /\ f = "conflict" /\ ~IsTimeOff(d, ts) /\ WindowHolds(d, ts, ClockTime(ts))
          => response'.reason = SLOT_ALREADY_BOOKED

C12_FailClosed ==
    [][ /\ BookStep /\ request'.fail \in {"timeoff", "schedule", "conflict"}
           => FailClosed(request'.doctor, request'.ts, request'.fail)
        /\ RescheduleStep /\ request'.fail \in {"timeoff", "schedule", "conflict"}
           => FailClosed(DoctorOf(request'.appt), request'.ts, request'.fail)
      ]_vars

\* a reschedule onto a free slot inside the window, no time-off on the date,
\* was rejected with SLOT_ALREADY_BOOKED because its conflict query failed
C12_Witness ==
    /\ request.op = "reschedule"
    /\ Exists(request.appt)
    /\ request.fail = "conflict"
    /\ ~IsTimeOff(DoctorOf(request.appt), request.ts)
    /\ WindowHolds(DoctorOf(request.appt), request.ts, ClockTime(request.ts))
    /\ ~Occupied(DoctorOf(request.appt), request.ts)
    /\ response.reason = SLOT_ALREADY_BOOKED

\* ===========================================================================
\* C13 - schedule registration rejects a day of week outside 1..7, rejects
\* start >= end, and rejects a second rule for a registered (doctor, day of
\* week), each without changing the store; hence in every reachable state
\* each stored rule has its day of week in 1..7 and start < end strictly, and
\* there is at most one rule per (doctor, day of week).
\* ===========================================================================
ScheduleStep == request'.op = "schedule"

RuleRegistered(d, day) ==
    \E s \in schedules : s.doctor_id = d /\ s.day_of_week = day

OneRulePerDay ==
    \A s, t \in schedules :
        s.doctor_id = t.doctor_id /\ s.day_of_week = t.day_of_week => s = t

C13_ScheduleRulesWellFormed ==
    [][ /\ ScheduleStep /\ ( \/ request'.day \notin 1 .. 7
                              \/ request'.start >= request'.end
                              \/ RuleRegistered(request'.doctor, request'.day) )
           => /\ response'.status # "Created"
              /\ UNCHANGED store
        /\ \A s \in schedules' :
              s.day_of_week \in 1 .. 7 /\ s.start_time < s.end_time
        /\ OneRulePerDay'
      ]_vars

\* what holds instead: the same with start <= end for the stored rules
C13_StartNotAfterEnd ==
    [][ /\ ScheduleStep /\ ( \/ request'.day \notin 1 .. 7
                              \/ request'.start >= request'.end
                              \/ RuleRegistered(request'.doctor, request'.day) )
           => /\ response'.status # "Created"
              /\ UNCHANGED store
        /\ \A s \in schedules' :
              s.day_of_week \in 1 .. 7 /\ s.start_time <= s.end_time
        /\ OneRulePerDay'
      ]_vars

\* ===========================================================================
\* C14 - with book and reschedule requests handled one at a time, no two
\* non-cancelled appointments of a doctor have the same timestamp in any
\* reachable state; a reschedule of A onto a timestamp held by another
\* appointment of the same doctor is rejected with SLOT_ALREADY_BOOKED.
\* ===========================================================================
SlotsDistinct ==
    \A a, b \in appointments :
        ( /\ a.id # b.id /\ a.doctor_id = b.doctor_id
          /\ a.status # "CANCELLED" /\ b.status # "CANCELLED" )
        => a.appointment_date # b.appointment_date

OntoOtherSlot ==
    /\ RescheduleStep
    /\ OccupiedByOther(DoctorOf(request'.appt), request'.ts, request'.appt)

C14_OneAtATimeRejectedAsBooked ==
    [][ /\ SlotsDistinct'
        /\ OntoOtherSlot => /\ response'.reason = SLOT_ALREADY_BOOKED
                            /\ appointments' = appointments ]_vars

\* C14 as amended: the reschedule onto another appointment's slot is rejected
\* and changes no appointment; the reason is SLOT_ALREADY_BOOKED unless the
\* date has since been registered as a time-off of the doctor, and
\* DOCTOR_UNAVAILABLE_TIMEOFF then.
C14_OneAtATime ==
    [][ /\ SlotsDistinct'
        /\ OntoOtherSlot
           => /\ response'.reason =
                    IF IsTimeOff(DoctorOf(request'.appt), request'.ts)
                    THEN DOCTOR_UNAVAILABLE_TIMEOFF ELSE SLOT_ALREADY_BOOKED
              /\ appointments' = appointments ]_vars

\* with two appointments of a doctor, a reschedule of one onto the slot of
\* the other was rejected with SLOT_ALREADY_BOOKED
C14_Witness ==
    /\ request.op = "reschedule"
    /\ Exists(request.appt)
    /\ OccupiedByOther(DoctorOf(request.appt), request.ts, request.appt)
    /\ Appt(request.appt).appointment_date # request.ts
    /\ response.reason = SLOT_ALREADY_BOOKED
    /\ SlotsDistinct

\* ===========================================================================
\* C15 - in every reachable state, under any interleaving of book,
\* reschedule, schedule registration and time-off registration requests,
\* every stored appointment lies inside a registered working window of its
\* doctor for the weekday of its timestamp: start <= time of day <= end.
\* ===========================================================================
C15_AppointmentsInsideWindow ==
    \A a \in appointments :
        WindowHolds(a.doctor_id, a.appointment_date, TimeOfDay(a.appointment_date))

\* what holds instead while the bounds of the windows are whole seconds
\* (Spec): the same with the time of day read as HH:MM:SS
C15_InsideWindowOnClockReading ==
    \A a \in appointments :
        WindowHolds(a.doctor_id, a.appointment_date, ClockTime(a.appointment_date))

\* ===========================================================================
\* C16 - a successful reschedule frees the old slot: after appointment A of
\* doctor d has been moved from timestamp t1 to a different timestamp t2, and
\* while no other appointment of d is at t1, a later book request for (d, t1)
\* is not rejected with SLOT_ALREADY_BOOKED, while a later book request for
\* (d, t2) is rejected with SLOT_ALREADY_BOOKED.  (moved is the latest move,
\* so A is at t2.)
\* ===========================================================================
BookAfterMove ==
    /\ BookStep
    /\ moved # NotRecording /\ moved # NoMove
    /\ request'.doctor = moved.doctor_id

C16_RescheduleFreesOldSlot ==
    [][ BookAfterMove =>
          /\ request'.ts = moved.from /\ ~Occupied(moved.doctor_id, moved.from)
                => response'.reason # SLOT_ALREADY_BOOKED
          /\ request'.ts = moved.to
                => response'.reason = SLOT_ALREADY_BOOKED ]_vars

\* C16 as amended: the book request for (d, t2) is rejected and adds no
\* appointment, with SLOT_ALREADY_BOOKED when the time-off check and the
\* working-hours check of book pass for t2, and with the reason of the first
\* of them that fails otherwise.
C16_OldSlotFreeNewSlotHeld ==
    [][ BookAfterMove =>
          /\ request'.ts = moved.from /\ ~Occupied(moved.doctor_id, moved.from)
                => response'.reason # SLOT_ALREADY_BOOKED
          /\ request'.ts = moved.to
                => /\ response'.reason =
                         FirstFailing(IsTimeOff(moved.doctor_id, moved.to),
                                      ~WindowHolds(moved.doctor_id, moved.to,
                                                   ClockTime(moved.to)),
                                      TRUE)
                   /\ appointments' = appointments ]_vars

\* after a move, a book request for the old slot was accepted: the moved
\* appointment is at the new timestamp, the new appointment at the old one
C16_Witness ==
    /\ request.op = "book"
    /\ moved # NotRecording /\ moved # NoMove
    /\ request.doctor = moved.doctor_id
    /\ request.ts = moved.from
    /\ response.status = "Created"
    /\ Appt(moved.id).appointment_date = moved.to
    /\ \E b \in appointments : b.id # moved.id /\ b.appointment_date = moved.from

\* after a move, a book request for the new slot was rejected with
\* SLOT_ALREADY_BOOKED
C16_WitnessNewSlotHeld ==
    /\ request.op = "book"
    /\ moved # NotRecording /\ moved # NoMove
    /\ request.doctor = moved.doctor_id
    /\ request.ts = moved.to
    /\ response.reason = SLOT_ALREADY_BOOKED

====
